---- MODULE Spec2Model ----
(***************************************************************************)
(* State-machine model of runner::run, the script orchestrator of hurl     *)
(* (packages/hurl/src/runner/hurl_file.rs).  One run of `run` is modelled: *)
(* the inputs (script, runner options, initial session) are chosen in      *)
(* Init, and every call that leaves the orchestrator (hooks, policy        *)
(* resolvers, logger, entry executor, cookie snapshot) is a step whose     *)
(* result is drawn from a small set.  `trace` records those calls in the   *)
(* order they are made.  The elapsed time (lines 104, 165) is wall-clock    *)
(* and is left out of the result.                                          *)
(*                                                                         *)
(* Spec draws the script, the runner options and the executor's behaviour  *)
(* widely and keeps the logger, the client options and the entries'        *)
(* option sections fixed; SpecOptions draws the latter widely and lets the *)
(* executor return one result per call.                                    *)
(***************************************************************************)
EXTENDS Integers, Sequences, FiniteSets, TLC

\* ------------------------------------------------------------------ bounds
MaxEntries == 2
MaxOutcomes == 2

\* Variable names and values the caller and the executor may use.
Keys == {"token"}
Values == {"a", "b"}
\* Error lists an entry result may carry (empty = the transmission succeeded).
ErrorLists == {<<>>, <<"e1", "e2">>}
\* Cookie states of the client session.
CookieStates == {"c0", "c1"}
\* Verbosity levels of the client options and of an entry's option section.
Verbosities == {"Verbose", "VeryVerbose"}

\* ------------------------------------------------------------ option type
None == <<>>
Some(x) == <<x>>
IsSome(o) == o # None
Unwrap(o) == o[1]

\* ------------------------------------------------------------------ state
VARIABLES
  hurl_file,       \* the parsed script: [entries: Seq(Entry)]
  runner_options,  \* RunnerOptions, borrowed immutably
  http_client,     \* the client session, borrowed mutably: [cookies]
  client_options,  \* the baseline ClientOptions, borrowed immutably
  logger,          \* the Logger passed to run, borrowed immutably
  variables,       \* the run's variable environment (local `variables`)
  entries,         \* accumulated entry results (local `entries`)
  iter,            \* what is left of the collected (entry_index, entry) vector
  entry_index,     \* loop variable
  entry,           \* loop variable
  entry_logger,    \* the loop body's `logger` (line 123), None before the first
  entry_client_options, \* the loop body's `client_options` (line 135)
  entry_results,   \* what entry::run returned for the current entry
  pc,              \* position inside run
  exit_by,         \* how the loop was left
  result,          \* the returned HurlResult, None until run returns
  trace            \* calls made to the collaborators, in order

vars == <<hurl_file, runner_options, http_client, client_options, logger,
          variables, entries, iter, entry_index, entry, entry_logger,
          entry_client_options, entry_results, pc, exit_by, result, trace>>

\* What run only reads: its borrowed, immutable arguments other than runner_options.
inputs == <<hurl_file, client_options, logger>>
\* The bindings of the loop body made at lines 123 and 135.
body == <<entry_logger, entry_client_options>>

\* ---------------------------------------------------------------- helpers
Min(a, b) == IF a <= b THEN a ELSE b

\* HashMap values: functions whose domain is a subset of Keys.
VarMaps == UNION {[D -> Values] : D \in SUBSET Keys}

\* Variant: a count beyond the length takes nothing.
take_strict(s, n) == IF n > Len(s) THEN <<>> ELSE SubSeq(s, 1, n)
\* Variant: n read as the index of the last element to take.
take_inclusive(s, n) == SubSeq(s, 1, Min(n + 1, Len(s)))
\* Iterator::take(n): the first n elements, all of them when n exceeds the length.
take(s, n) == SubSeq(s, 1, Min(n, Len(s)))

\* Variant: every position yields the first pair again.
enumerate_repeat(s) == [p \in 1..Len(s) |-> <<0, s[1]>>]
\* Iterator::enumerate: pairs (zero-based position, element).
enumerate(s) == [p \in 1..Len(s) |-> <<p - 1, s[p]>>]

\* Variant: the map is created but the pairs are not inserted.
copy_variables_none(src) == [k \in {} |-> "a"]
\* HashMap::insert of every pair of src into an empty map (lines 92-96).
copy_variables(src) == [k \in DOMAIN src |-> src[k]]

\* Variant: to_entry read as a zero-based index, not a count.
entry_count_index(opts, file) ==
  IF IsSome(opts.to_entry) THEN Unwrap(opts.to_entry) + 1 ELSE Len(file.entries)
\* n: to_entry verbatim when set, else the script length (lines 98-102).
entry_count(opts, file) ==
  IF IsSome(opts.to_entry) THEN Unwrap(opts.to_entry) ELSE Len(file.entries)

\* An entry result carries errors iff its error list is not empty.
has_errors(r) == r.errors # <<>>

\* flat_map(|e| e.errors.iter()): the errors of all entry results, in order.
RECURSIVE flat_errors(_)
flat_errors(es) ==
  IF es = <<>> THEN <<>> ELSE Head(es).errors \o flat_errors(Tail(es))

\* Variant: only the last accumulated result is looked at.
success_last(es) == es = <<>> \/ ~has_errors(es[Len(es)])
\* success: the flattened error iterator yields nothing (lines 166-170).
success(es) == flat_errors(es) = <<>>

\* Vec::last: None on an empty vector.
last(rs) == IF rs = <<>> THEN None ELSE Some(rs[Len(rs)])

\* Variant: the first result of the entry is checked instead of the last.
fail_fast_break_first(opts, rs) == opts.fail_fast /\ has_errors(rs[1])
\* Variant: an error in the last result stops the run whatever fail_fast is.
fail_fast_break_any_mode(opts, rs) == rs # <<>> /\ has_errors(rs[Len(rs)])
\* Variant: an error in any result of the entry stops the run.
fail_fast_break_any(opts, rs) ==
  opts.fail_fast /\ \E q \in 1..Len(rs) : has_errors(rs[q])
\* The fail-fast condition of line 160; last() is unwrapped only when fail_fast is set.
fail_fast_break(opts, rs) == opts.fail_fast /\ has_errors(Unwrap(last(rs)))

\* One call to a method of the Logger lg.
LogCall(lg, f, idx, a) ==
  [fn |-> f, entry_index |-> idx, arg |-> a, ret |-> <<>>, logger |-> lg]

\* error_rich calls made for one entry result, on the loop body's logger
\* (lines 147-149).
error_calls(idx, r) ==
  [q \in 1..Len(r.errors) |->
     LogCall(Unwrap(entry_logger), "error_rich", idx, r.errors[q])]

\* Variant: only the errors of the entry's last result are reported.
report_calls_last(idx, rs) ==
  IF rs = <<>> THEN <<>> ELSE error_calls(idx, rs[Len(rs)])
\* The logger calls of the loop of lines 146-151 over rs, in order.
RECURSIVE report_calls(_, _)
report_calls(idx, rs) ==
  IF rs = <<>> THEN <<>>
  ELSE error_calls(idx, Head(rs)) \o report_calls(idx, Tail(rs))

\* Variant: the results of one entry are pushed last to first.
push_all_reversed(es, rs) == es \o [q \in 1..Len(rs) |-> rs[Len(rs) + 1 - q]]
\* The pushes of the loop of lines 146-151: every entry result, in order.
RECURSIVE push_all(_, _)
push_all(es, rs) ==
  IF rs = <<>> THEN es
  ELSE push_all(Append(es, Head(rs)), Tail(rs))

\* One call to a collaborator: what was called, for which entry, with what, and
\* what it returned.
Call(f, idx, a, r) == [fn |-> f, entry_index |-> idx, arg |-> a, ret |-> r]

\* ------------------------------------------------------------ input sets
EntryResult == [errors : ErrorLists]

\* What entry::run may return: any sequence of at most MaxOutcomes results.
EntryResultSeqs == UNION {[1..k -> EntryResult] : k \in 0..MaxOutcomes}

\* One call of entry::run: the results it returns, the environment and the cookie
\* state it leaves.  A call either returns any result sequence and leaves the
\* environment and the session as they are, or returns a single result and
\* leaves any other environment and any other cookie state.
ExecutorOutcomes(vs0, cs0) ==
  {<<rs, vs0, cs0>> : rs \in EntryResultSeqs}
    \cup {<<rs, vs, cs>> : rs \in [1..1 -> EntryResult],
                          vs \in VarMaps \ {vs0}, cs \in CookieStates \ {cs0}}

\* The option section of an entry: for each option, None when the entry does
\* not declare it, else the declared value.
NoEntryOptions == [verbosity |-> None, insecure |-> None]
EntryOptionSets ==
  { NoEntryOptions,
    [verbosity |-> Some(Some("VeryVerbose")), insecure |-> None],
    [verbosity |-> Some(None), insecure |-> Some(TRUE)],
    [verbosity |-> None, insecure |-> Some(TRUE)] }

\* Scripts whose entries declare no option.
Scripts ==
  {[entries |-> [p \in 1..len |-> [source_line |-> p, options |-> NoEntryOptions]]] :
     len \in 0..MaxEntries}

\* Scripts whose entries declare any of the option sections.
ScriptsWithOptions ==
  UNION {{[entries |-> [p \in 1..len |-> [source_line |-> p, options |-> os[p]]]] :
            os \in [1..len -> EntryOptionSets]} : len \in 0..MaxEntries}

ClientOptionsSet == [verbosity : {None, Some("Verbose")}, insecure : BOOLEAN]

Loggers == [color : BOOLEAN, verbose : BOOLEAN, filename : {"sample.hurl"},
            content : {"GET http://localhost:8000/hello"}]

\* The session run is handed.
InitialSession == [cookies |-> "c0"]

\* The runner options run is handed: one caller variable, any of the rest.
RunnerOptionsSet ==
  [fail_fast : BOOLEAN,
   variables : {[k \in Keys |-> "a"]},
   to_entry : {None} \cup {Some(k) : k \in 0..(MaxEntries + 1)},
   pre_entry : BOOLEAN,
   post_entry : BOOLEAN]

\* ------------------------------------------------------------------- Init
\* The state when the loop is first entered (lines 91-104), for given arguments.
Start ==
  /\ http_client = InitialSession
  /\ entry_logger = None
  /\ entry_client_options = None
  /\ variables = copy_variables(runner_options.variables)
  /\ entries = <<>>
  /\ iter = enumerate(take(hurl_file.entries, entry_count(runner_options, hurl_file)))
  /\ entry_index = 0
  /\ entry = None
  /\ entry_results = <<>>
  /\ pc = "loop"
  /\ exit_by = "running"
  /\ result = None
  /\ trace = <<>>

\* Any script without option sections, any runner options; a verbose logger and
\* client options without verbosity.
Init ==
  /\ hurl_file \in Scripts
  /\ runner_options \in RunnerOptionsSet
  /\ client_options = [verbosity |-> None, insecure |-> FALSE]
  /\ logger = [color |-> FALSE, verbose |-> TRUE, filename |-> "sample.hurl",
               content |-> "GET http://localhost:8000/hello"]
  /\ Start

\* ---------------------------------------------------------------- actions
\* Variant: a stop skips the entry and goes on with the next one.
after_pre_entry_continue(exit) == IF exit THEN "loop" ELSE "exec"
\* Variant: a stop asked by the pre-entry hook still runs the post-entry hook.
after_pre_entry_runs_post(exit) == IF exit THEN "post" ELSE "exec"
\* Where control goes after the pre-entry hook returned `exit` (lines 114-116).
after_pre_entry(exit) == IF exit THEN "finish" ELSE "exec"

\* Variant: the fail-fast condition is evaluated before the hook's stop is obeyed.
after_post_entry_checks_first(exit) ==
  IF exit /\ ~(runner_options.fail_fast
                 /\ (entry_results = <<>> \/ has_errors(entry_results[Len(entry_results)])))
    THEN "finish" ELSE "failfast"
\* Variant: the value the post-entry hook returned is not looked at.
after_post_entry_ignored(exit) == "failfast"
\* Where control goes after the post-entry hook returned `exit` (lines 155-157).
after_post_entry(exit) == IF exit THEN "finish" ELSE "failfast"

\* The iterator is exhausted: the loop ends (line 105).
LoopEnd ==
  /\ pc = "loop"
  /\ iter = <<>>
  /\ pc' = "finish"
  /\ exit_by' = "exhausted"
  /\ UNCHANGED <<inputs, body, runner_options, http_client, variables, entries, iter,
                 entry_index, entry, entry_results, result, trace>>

\* Next element, pre-entry hook configured (lines 105-117).
PreEntry ==
  /\ pc = "loop"
  /\ iter # <<>>
  /\ runner_options.pre_entry
  /\ \E exit \in BOOLEAN :
       /\ pc' = after_pre_entry(exit)
       /\ exit_by' = IF pc' = "finish" THEN "pre_entry" ELSE exit_by
       /\ trace' = Append(trace, Call("pre_entry", Head(iter)[1], Head(iter)[2], exit))
  /\ entry_index' = Head(iter)[1]
  /\ entry' = Some(Head(iter)[2])
  /\ iter' = Tail(iter)
  /\ UNCHANGED <<inputs, body, runner_options, http_client, variables, entries,
                 entry_results, result>>

\* Next element, no pre-entry hook (lines 105-112).
NoPreEntry ==
  /\ pc = "loop"
  /\ iter # <<>>
  /\ ~runner_options.pre_entry
  /\ pc' = "exec"
  /\ entry_index' = Head(iter)[1]
  /\ entry' = Some(Head(iter)[2])
  /\ iter' = Tail(iter)
  /\ UNCHANGED <<inputs, body, runner_options, http_client, variables, entries,
                 entry_results, exit_by, result, trace>>

\* entry::get_entry_verbosity: the verbosity the entry declares, else the base.
get_entry_verbosity(e, base) ==
  IF IsSome(e.options.verbosity) THEN Unwrap(e.options.verbosity) ELSE base

\* entry::get_entry_options: the base options with every option the entry
\* declares replaced by the declared value.
get_entry_options(e, base) ==
  [verbosity |-> get_entry_verbosity(e, base.verbosity),
   insecure |-> IF IsSome(e.options.insecure) THEN Unwrap(e.options.insecure)
                ELSE base.insecure]

\* Variant: the bindings of the previous iteration are still in scope.
outer_client_options_shadowed ==
  IF IsSome(entry_client_options) THEN Unwrap(entry_client_options) ELSE client_options
\* The `client_options` lines 122 and 135 read: the argument of run, the binding
\* of line 135 ending with each iteration.
outer_client_options == client_options

\* Variant: the new logger keeps the verbosity of the logger it is made from.
entry_scoped_logger_keeps(lg, entry_verbosity) == lg
\* Logger::new(logger.color, entry_verbosity.is_some(), logger.filename,
\* logger.content) (lines 123-128).
entry_scoped_logger(lg, entry_verbosity) ==
  [color |-> lg.color, verbose |-> IsSome(entry_verbosity),
   filename |-> lg.filename, content |-> lg.content]

\* Policy resolution, scoped logger, markers and the executor call (lines 122-144),
\* the executor leaving `out`: its results, the environment and the cookie state.
ExecuteCall(out) ==
  LET rs == out[1]
      vs == out[2]
      cs == out[3]
      e == Unwrap(entry)
      base == outer_client_options
      entry_verbosity == get_entry_verbosity(e, base.verbosity)
      lg == entry_scoped_logger(logger, entry_verbosity)
      options == get_entry_options(e, base)
  IN
    /\ entry_logger' = Some(lg)
    /\ entry_client_options' = Some(options)
    /\ entry_results' = rs
    /\ variables' = vs
    /\ http_client' = [http_client EXCEPT !.cookies = cs]
    /\ trace' = trace \o
         << Call("get_entry_verbosity", entry_index,
                 [entry |-> e, verbosity |-> base.verbosity], entry_verbosity),
            LogCall(lg, "debug_important", entry_index, "----"),
            LogCall(lg, "debug_important", entry_index, entry_index + 1),
            Call("get_entry_options", entry_index,
                 [entry |-> e, client_options |-> base, logger |-> lg], options),
            Call("entry::run", entry_index,
                 [entry |-> e, variables |-> variables, client_options |-> options,
                  logger |-> lg],
                 [entry_results |-> rs, variables |-> vs, cookies |-> cs]) >>
    /\ pc' = "report"
    /\ UNCHANGED <<inputs, entries, iter, entry_index, entry, exit_by, result>>

\* Variant: the executor is lent the caller's map itself.
ExecuteAliased ==
  /\ pc = "exec"
  /\ \E out \in ExecutorOutcomes(variables, http_client.cookies) :
       /\ ExecuteCall(out)
       /\ runner_options' = [runner_options EXCEPT !.variables = out[2]]

\* The executor writes the run's own map (line 140), never runner_options.
Execute ==
  /\ pc = "exec"
  /\ \E out \in ExecutorOutcomes(variables, http_client.cookies) :
       /\ ExecuteCall(out)
       /\ UNCHANGED runner_options

\* Errors are logged and the results pushed (lines 146-151).
Report ==
  /\ pc = "report"
  /\ trace' = trace \o report_calls(entry_index, entry_results)
  /\ entries' = push_all(entries, entry_results)
  /\ pc' = "post"
  /\ UNCHANGED <<inputs, body, runner_options, http_client, variables, iter,
                 entry_index, entry, entry_results, exit_by, result>>

\* Post-entry hook configured (lines 153-158).
PostEntry ==
  /\ pc = "post"
  /\ runner_options.post_entry
  /\ \E exit \in BOOLEAN :
       /\ pc' = after_post_entry(exit)
       /\ exit_by' = IF pc' = "finish" THEN "post_entry" ELSE exit_by
       /\ trace' = Append(trace, Call("post_entry", entry_index, None, exit))
  /\ UNCHANGED <<inputs, body, runner_options, http_client, variables, entries, iter,
                 entry_index, entry, entry_results, result>>

\* No post-entry hook (line 153).
NoPostEntry ==
  /\ pc = "post"
  /\ ~runner_options.post_entry
  /\ pc' = "failfast"
  /\ UNCHANGED <<inputs, body, runner_options, http_client, variables, entries, iter,
                 entry_index, entry, entry_results, exit_by, result, trace>>

\* Variant: an entry without results counts as an entry without error.
FailFastLenient ==
  /\ pc = "failfast"
  /\ IF entry_results # <<>> /\ fail_fast_break(runner_options, entry_results)
       THEN pc' = "finish" /\ exit_by' = "fail_fast"
       ELSE pc' = "loop" /\ exit_by' = exit_by
  /\ UNCHANGED <<inputs, body, runner_options, http_client, variables, entries, iter,
                 entry_index, entry, entry_results, result, trace>>

\* The fail-fast check (lines 160-162).  `&&` short-circuits: entry_results.last()
\* is unwrapped only when fail_fast is set, and unwrapping None panics.
FailFast ==
  /\ pc = "failfast"
  /\ IF runner_options.fail_fast /\ last(entry_results) = None
       THEN pc' = "panicked" /\ exit_by' = "panic"
       ELSE IF fail_fast_break(runner_options, entry_results)
         THEN pc' = "finish" /\ exit_by' = "fail_fast"
         ELSE pc' = "loop" /\ exit_by' = exit_by
  /\ UNCHANGED <<inputs, body, runner_options, http_client, variables, entries, iter,
                 entry_index, entry, entry_results, result, trace>>

\* Variant: the snapshot is the cookie state run was entered with.
get_cookie_storage_at_start(client) == InitialSession.cookies
\* http_client.get_cookie_storage() (line 172): the session's cookies when called.
get_cookie_storage(client) == client.cookies

\* After the loop: success, cookie snapshot, the HurlResult (lines 165-180).
\* The snapshot call is recorded with the index the loop stopped at.
Finish ==
  /\ pc = "finish"
  /\ result' = Some([entries |-> entries,
                     success |-> success(entries),
                     cookies |-> get_cookie_storage(http_client)])
  /\ trace' = Append(trace, Call("get_cookie_storage", entry_index, None,
                                  get_cookie_storage(http_client)))
  /\ pc' = "done"
  /\ UNCHANGED <<inputs, body, runner_options, http_client, variables, entries, iter,
                 entry_index, entry, entry_results, exit_by>>

Next ==
  \/ LoopEnd
  \/ PreEntry
  \/ NoPreEntry
  \/ Execute
  \/ Report
  \/ PostEntry
  \/ NoPostEntry
  \/ FailFast
  \/ Finish

Spec == Init /\ [][Next]_vars

\* ------------------------------------------- the run with option sections
\* One call of entry::run that returns one result and writes nothing.
SingleOutcomes(vs0, cs0) == {<<rs, vs0, cs0>> : rs \in [1..1 -> EntryResult]}

\* Lines 122-144, the executor returning one result.
ExecuteOne ==
  /\ pc = "exec"
  /\ \E out \in SingleOutcomes(variables, http_client.cookies) :
       /\ ExecuteCall(out)
       /\ UNCHANGED runner_options

\* Any script with option sections, any client options, any logger; both hooks
\* or none, no fail-fast, no to_entry, no initial variables.
InitOptions ==
  /\ hurl_file \in ScriptsWithOptions
  /\ client_options \in ClientOptionsSet
  /\ logger \in Loggers
  /\ runner_options \in
       {[fail_fast |-> FALSE, variables |-> [k \in {} |-> "a"], to_entry |-> None,
         pre_entry |-> h, post_entry |-> h] : h \in BOOLEAN}
  /\ Start

NextOptions ==
  \/ LoopEnd
  \/ PreEntry
  \/ NoPreEntry
  \/ ExecuteOne
  \/ Report
  \/ PostEntry
  \/ NoPostEntry
  \/ FailFast
  \/ Finish

SpecOptions == InitOptions /\ [][NextOptions]_vars

\* ------------------------------------------------- what the trace records
Calls(f) == SelectSeq(trace, LAMBDA c : c.fn = f)

\* The executor calls made so far, in order.
Runs == Calls("entry::run")

\* The entries the script offers to the loop: min(n, script length) of them.
Considered == Min(entry_count(runner_options, hurl_file), Len(hurl_file.entries))

RECURSIVE Flatten(_)
Flatten(ss) == IF ss = <<>> THEN <<>> ELSE Head(ss) \o Flatten(Tail(ss))

\* The results returned by the executor calls cs, concatenated in call order.
ReturnedBy(cs) == Flatten([p \in 1..Len(cs) |-> cs[p].ret.entry_results])

\* The results of the executor calls for entries up to index i.
ReturnedUpTo(i) == ReturnedBy(SelectSeq(Runs, LAMBDA c : c.entry_index <= i))

Returned == ReturnedBy(Runs)

HookStopped == \E p \in 1..Len(trace) :
  trace[p].fn \in {"pre_entry", "post_entry"} /\ trace[p].ret = TRUE

Carries(r) == Len(r.errors) > 0

\* ------------------------------------------------------------------ claims

\* C1: with fail_fast set, once the executor's last result for entry i carries an
\* error, no entry after i reaches the pre-entry hook or the executor, and the
\* returned result ends with all the results of entry i.
C1_FailFastStops ==
  runner_options.fail_fast =>
    LET runs == Runs IN
    \A p \in 1..Len(runs) :
      LET rs == runs[p].ret.entry_results
          i == runs[p].entry_index
      IN (Len(rs) > 0 /\ Carries(rs[Len(rs)])) =>
           /\ \A q \in 1..Len(trace) :
                trace[q].fn \in {"pre_entry", "entry::run"} => trace[q].entry_index <= i
           /\ IsSome(result) =>
                LET out == Unwrap(result).entries IN
                /\ Len(out) >= Len(rs)
                /\ SubSeq(out, Len(out) - Len(rs) + 1, Len(out)) = rs

C1_Witness ==
  /\ pc = "done"
  /\ exit_by = "fail_fast"
  /\ iter # <<>>
  /\ Len(entry_results) = 2
  /\ ~Carries(entry_results[1])

\* C2: the returned success flag is true exactly when no returned entry result
\* carries an error, however the loop was left.
C2_SuccessIffNoError ==
  IsSome(result) =>
    LET out == Unwrap(result).entries IN
    /\ Unwrap(result).success \in BOOLEAN
    /\ Unwrap(result).success = (\A p \in 1..Len(out) : ~Carries(out[p]))
    /\ exit_by \in {"exhausted", "pre_entry", "post_entry", "fail_fast"}

C2_Witness ==
  /\ pc = "done"
  /\ exit_by = "post_entry"
  /\ Len(Unwrap(result).entries) = 2
  /\ Unwrap(result).success

\* C3: with to_entry = k, 0 <= k <= script length, the executor is called for a
\* prefix of entries 0..k-1, and for all k of them when the loop ran to its end.
C3_ToEntryCount ==
  (IsSome(runner_options.to_entry)
     /\ Unwrap(runner_options.to_entry) <= Len(hurl_file.entries)) =>
    LET k == Unwrap(runner_options.to_entry)
        runs == Runs
    IN
      /\ Len(runs) <= k
      /\ \A p \in 1..Len(runs) :
           /\ runs[p].entry_index = p - 1
           /\ runs[p].arg.entry = hurl_file.entries[p]
      /\ (pc \in {"finish", "done"} /\ exit_by = "exhausted") => Len(runs) = k

C3_Witness ==
  /\ pc = "done"
  /\ exit_by = "exhausted"
  /\ runner_options.to_entry = Some(1)
  /\ Len(hurl_file.entries) = 2
  /\ Len(Runs) = 1

\* C4: after the pre-entry hook returned stop for entry i, nothing is called but
\* the final cookie snapshot, and the returned results are those of entries
\* 0..i-1 (none when i = 0).
C4_PreEntryStop ==
  \A p \in 1..Len(trace) :
    (trace[p].fn = "pre_entry" /\ trace[p].ret = TRUE) =>
      LET runs == Runs IN
      /\ \A q \in (p + 1)..Len(trace) : trace[q].fn = "get_cookie_storage"
      /\ pc \in {"finish", "done"}
      /\ \A q \in 1..Len(runs) : runs[q].entry_index < trace[p].entry_index
      /\ IsSome(result) =>
           /\ Unwrap(result).entries = ReturnedUpTo(trace[p].entry_index - 1)
           /\ trace[p].entry_index = 0 => Unwrap(result).entries = <<>>

C4_Witness ==
  /\ pc = "done"
  /\ exit_by = "pre_entry"
  /\ entry_index = 1
  /\ Len(Unwrap(result).entries) > 0

\* C5: after the post-entry hook returned stop after entry i, no pre-entry hook
\* and no executor call follows, and the returned results are those of entries
\* 0..i, the results of entry i included.
C5_PostEntryStop ==
  \A p \in 1..Len(trace) :
    (trace[p].fn = "post_entry" /\ trace[p].ret = TRUE) =>
      LET runs == Runs IN
      /\ \A q \in (p + 1)..Len(trace) : trace[q].fn = "get_cookie_storage"
      /\ pc \in {"finish", "done"}
      /\ \A q \in 1..Len(runs) : runs[q].entry_index <= trace[p].entry_index
      /\ \E q \in 1..Len(runs) : runs[q].entry_index = trace[p].entry_index
      /\ IsSome(result) =>
           /\ Unwrap(result).entries = ReturnedUpTo(trace[p].entry_index)
           /\ Unwrap(result).entries = ReturnedBy(runs)

C5_Witness ==
  /\ pc = "done"
  /\ exit_by = "post_entry"
  /\ iter # <<>>
  /\ Len(entry_results) = 2
  /\ Len(Unwrap(result).entries) = 2

\* C6: the first executor call receives the caller's initial variables, and each
\* later call receives the environment exactly as the previous call left it.
C6_EnvironmentThreaded ==
  LET runs == Runs IN
  \A p \in 1..Len(runs) :
    runs[p].arg.variables =
      IF p = 1 THEN runner_options.variables ELSE runs[p - 1].ret.variables

C6_Witness ==
  LET runs == Runs IN
  /\ Len(runs) = 2
  /\ runs[1].ret.variables # runs[1].arg.variables
  /\ DOMAIN runs[1].arg.variables # {}
  /\ runs[2].arg.variables = runs[1].ret.variables

\* C7: no step of the run changes runner_options.variables, whatever the
\* executor writes into the run's environment.
C7_CallerVariablesUnchanged ==
  [][runner_options'.variables = runner_options.variables]_vars

C7_Witness ==
  /\ pc = "done"
  /\ Len(Runs) > 0
  /\ variables # runner_options.variables
  /\ DOMAIN runner_options.variables # {}

\* C8: the accumulated results are the executor's returned sequences, concatenated
\* in call order, and the calls are made in increasing entry index.
C8_OutcomesConcatenated ==
  LET runs == Runs
      returned == ReturnedBy(runs)
  IN
  /\ \A p \in 1..Len(runs) : \A q \in 1..Len(runs) :
       p < q => runs[p].entry_index < runs[q].entry_index
  /\ pc # "report" => entries = returned
  /\ IsSome(result) => Unwrap(result).entries = returned

C8_Witness ==
  LET runs == Runs IN
  /\ pc = "done"
  /\ Len(runs) = 2
  /\ Len(runs[1].ret.entry_results) = 2
  /\ Len(runs[2].ret.entry_results) = 2
  /\ Carries(Unwrap(result).entries[1])
  /\ ~Carries(Unwrap(result).entries[2])
  /\ ~Carries(Unwrap(result).entries[3])
  /\ Carries(Unwrap(result).entries[4])

\* C9: when zero entries are considered (empty script, or to_entry = 0), no hook
\* and no executor is called, and the run returns no results and success = true.
C9_ZeroEntries ==
  (Len(hurl_file.entries) = 0 \/ runner_options.to_entry = Some(0)) =>
    /\ \A p \in 1..Len(trace) : trace[p].fn = "get_cookie_storage"
    /\ pc \in {"loop", "finish", "done"}
    /\ pc = "done" =>
         /\ IsSome(result)
         /\ Unwrap(result).entries = <<>>
         /\ Unwrap(result).success = TRUE

C9_Witness ==
  /\ pc = "done"
  /\ runner_options.to_entry = Some(0)
  /\ Len(hurl_file.entries) = 2
  /\ runner_options.fail_fast
  /\ runner_options.pre_entry
  /\ runner_options.post_entry

\* C10: with fail_fast unset the run never aborts and never stops for an error:
\* some step is always possible until it has returned, and a run no hook
\* stopped executes every considered entry.
C10_ErrorsNeverAbort ==
  ~runner_options.fail_fast =>
    /\ pc # "panicked"
    /\ exit_by \in {"running", "exhausted", "pre_entry", "post_entry"}
    /\ pc # "done" => ENABLED Next
    /\ pc = "done" =>
         /\ IsSome(result)
         /\ ~HookStopped => (Len(Runs) = Considered /\ exit_by = "exhausted")

C10_Witness ==
  LET runs == Runs IN
  /\ pc = "done"
  /\ ~runner_options.fail_fast
  /\ exit_by = "exhausted"
  /\ Len(runs) = 2
  /\ \A p \in 1..Len(runs) :
       /\ Len(runs[p].ret.entry_results) > 0
       /\ Carries(runs[p].ret.entry_results[Len(runs[p].ret.entry_results)])

\* An executor call whose last result is clean although an earlier one is not.
ErrorOnlyBeforeLast(c) ==
  LET rs == c.ret.entry_results IN
  /\ Len(rs) > 1
  /\ ~Carries(rs[Len(rs)])
  /\ \E q \in 1..(Len(rs) - 1) : Carries(rs[q])

\* C11: with fail_fast set, an entry whose last result is clean but whose earlier
\* results carry errors does not stop the run: fail-fast never ends the loop at
\* that entry, a run that ends there was stopped by a hook or had no entry left,
\* and the returned success flag is false.
C11_OnlyLastOutcomeChecked ==
  runner_options.fail_fast =>
    LET runs == Runs IN
    \A p \in 1..Len(runs) :
      ErrorOnlyBeforeLast(runs[p]) =>
        /\ (p = Len(runs) /\ pc \in {"finish", "done"}) =>
             \/ exit_by \in {"pre_entry", "post_entry"}
             \/ exit_by = "exhausted" /\ runs[p].entry_index = Considered - 1
        /\ (p = Len(runs) /\ pc = "loop" /\ runs[p].entry_index < Considered - 1) =>
             ENABLED (PreEntry \/ NoPreEntry)
        /\ IsSome(result) => Unwrap(result).success = FALSE

C11_Witness ==
  LET runs == Runs IN
  /\ pc = "done"
  /\ runner_options.fail_fast
  /\ Len(runs) = 2
  /\ ErrorOnlyBeforeLast(runs[1])
  /\ ~Unwrap(result).success

\* C14: with to_entry beyond the script length the loop is offered exactly the
\* script's entries: every hook and executor call is for an index below the
\* length and for the entry at that index, and a run the loop ended by itself
\* executed every entry of the script.
C14_ToEntryClamped ==
  (IsSome(runner_options.to_entry)
     /\ Unwrap(runner_options.to_entry) > Len(hurl_file.entries)) =>
    LET runs == Runs IN
      /\ Len(iter) <= Len(hurl_file.entries)
      /\ \A q \in 1..Len(trace) :
           trace[q].fn \in {"pre_entry", "entry::run"} =>
             /\ trace[q].entry_index \in 0..(Len(hurl_file.entries) - 1)
      /\ \A p \in 1..Len(runs) :
           /\ runs[p].entry_index = p - 1
           /\ runs[p].arg.entry = hurl_file.entries[p]
      /\ (pc \in {"finish", "done"} /\ exit_by = "exhausted") =>
           Len(runs) = Len(hurl_file.entries)

C14_Witness ==
  /\ pc = "done"
  /\ exit_by = "exhausted"
  /\ runner_options.to_entry = Some(3)
  /\ Len(hurl_file.entries) = 2
  /\ Len(Runs) = 2

\* The errors carried by the results rs, in order.
ErrorsOf(rs) == Flatten([p \in 1..Len(rs) |-> rs[p].errors])

\* The errors passed to error_rich so far, in call order.
Reported == [p \in 1..Len(Calls("error_rich")) |-> Calls("error_rich")[p].arg]

\* C12: the errors passed to error_rich are, in order and once each, the errors
\* of the results the executor returned; they are passed to the logger handed
\* to that entry's executor, after its call and before the entry's post-entry
\* hook and fail-fast check, so the returned result carries exactly the
\* reported errors however the loop was left.
C12_ErrorsReportedOnce ==
  LET runs == Runs
      reported == Reported
  IN
  /\ pc # "report" => reported = ErrorsOf(ReturnedBy(runs))
  /\ pc = "report" => reported = ErrorsOf(entries)
  /\ IsSome(result) => reported = ErrorsOf(Unwrap(result).entries)
  /\ \A q \in 1..Len(trace) :
       trace[q].fn = "error_rich" =>
         /\ q > 1
         /\ LET c == trace[q - 1] IN
            /\ c.fn \in {"entry::run", "error_rich"}
            /\ c.entry_index = trace[q].entry_index
            /\ trace[q].logger = IF c.fn = "entry::run" THEN c.arg.logger ELSE c.logger
  /\ \A p \in 1..Len(trace) :
       trace[p].fn = "post_entry" =>
         \A q \in (p + 1)..Len(trace) :
           trace[q].fn = "error_rich" => trace[p].entry_index < trace[q].entry_index

C12_Witness ==
  /\ pc = "done"
  /\ exit_by = "fail_fast"
  /\ runner_options.post_entry
  /\ Len(entry_results) = 2
  /\ Reported = <<"e1", "e2", "e1", "e2">>
  /\ trace[Len(trace) - 2].logger # logger

\* The place of a call within the iteration of its entry.
StepRank(f) ==
  CASE f = "pre_entry" -> 1
    [] f = "get_entry_verbosity" -> 2
    [] f = "debug_important" -> 3
    [] f = "get_entry_options" -> 4
    [] f = "entry::run" -> 5
    [] f = "error_rich" -> 6
    [] f = "post_entry" -> 7
    [] OTHER -> 8

\* C13: the calls of one entry are made in the order pre-entry hook, resolvers
\* and markers, executor, error reports, post-entry hook, and entries follow one
\* another; the fail-fast check comes after the post-entry hook returned without
\* stop, so the hook is called even when fail-fast is about to end the run, and
\* a stop of the hook ends the loop without the fail-fast condition being
\* evaluated (no fail-fast exit, no unwrap panic).
C13_StepOrder ==
  /\ \A p \in 1..(Len(trace) - 1) :
       LET c == trace[p]
           d == trace[p + 1]
       IN d.fn # "get_cookie_storage" =>
            /\ c.entry_index <= d.entry_index
            /\ c.entry_index = d.entry_index =>
                 /\ StepRank(c.fn) <= StepRank(d.fn)
                 /\ StepRank(c.fn) = StepRank(d.fn) =>
                      c.fn \in {"debug_important", "error_rich"}
  /\ (runner_options.post_entry /\ (pc = "failfast" \/ exit_by \in {"fail_fast", "panic"})) =>
       \E p \in 1..Len(trace) :
         /\ trace[p].fn = "post_entry"
         /\ trace[p].entry_index = entry_index
         /\ trace[p].ret = FALSE
  /\ (pc = "failfast" \/ exit_by \in {"fail_fast", "panic"}) =>
       \E p \in 1..Len(trace) :
         trace[p].fn = "entry::run" /\ trace[p].entry_index = entry_index
  /\ \A p \in 1..Len(trace) :
       (trace[p].fn = "post_entry" /\ trace[p].ret = TRUE) =>
         /\ pc \in {"finish", "done"}
         /\ exit_by = "post_entry"

C13_Witness ==
  /\ pc = "done"
  /\ exit_by = "post_entry"
  /\ runner_options.fail_fast
  /\ runner_options.pre_entry
  /\ Len(entry_results) > 0
  /\ Carries(entry_results[Len(entry_results)])

\* The loggers used for entries: those the markers and error reports are made
\* on and those handed to the resolver and the executor, with their entry.
EntryLoggers ==
  {<<trace[q].entry_index, trace[q].logger>> :
     q \in {r \in 1..Len(trace) : trace[r].fn \in {"debug_important", "error_rich"}}}
  \cup
  {<<trace[q].entry_index, trace[q].arg.logger>> :
     q \in {r \in 1..Len(trace) : trace[r].fn \in {"get_entry_options", "entry::run"}}}

\* The entry at zero-based index i of the script.
EntryAt(i) == hurl_file.entries[i + 1]

SameButVerbosity(lg) ==
  /\ lg.color = logger.color
  /\ lg.filename = logger.filename
  /\ lg.content = logger.content

\* C15 as stated: the entry's logger is verbose as the entry declares, and as the
\* logger passed to run is when the entry declares nothing.
C15_DefaultsToAmbientLogger ==
  \A il \in EntryLoggers :
    /\ SameButVerbosity(il[2])
    /\ il[2].verbose =
         IF IsSome(EntryAt(il[1]).options.verbosity)
           THEN IsSome(Unwrap(EntryAt(il[1]).options.verbosity))
           ELSE logger.verbose

\* C15, amended: every logger used for an entry has the color, filename and
\* content of the logger passed to run and is verbose exactly when the
\* verbosity resolved for that entry from client_options.verbosity is set, that
\* is the entry's declared verbosity, else client_options.verbosity; the logger
\* passed to run never changes, so each entry's logger is made from it.
C15_EntryLogger ==
  /\ [](\A il \in EntryLoggers :
          /\ SameButVerbosity(il[2])
          /\ \E q \in 1..Len(trace) :
               /\ trace[q].fn = "get_entry_verbosity"
               /\ trace[q].entry_index = il[1]
               /\ trace[q].arg.verbosity = client_options.verbosity
               /\ il[2].verbose = IsSome(trace[q].ret)
          /\ il[2].verbose =
               IF IsSome(EntryAt(il[1]).options.verbosity)
                 THEN IsSome(Unwrap(EntryAt(il[1]).options.verbosity))
                 ELSE IsSome(client_options.verbosity))
  /\ [][logger' = logger]_vars

C15_Witness ==
  /\ pc = "done"
  /\ Len(Runs) = 2
  /\ logger.verbose
  /\ client_options.verbosity = None
  /\ EntryAt(0).options.verbosity = Some(Some("VeryVerbose"))
  /\ EntryAt(1).options.verbosity = None
  /\ Runs[1].arg.logger.verbose
  /\ ~Runs[2].arg.logger.verbose

\* The value of option o for entry e over the baseline b: declared, else b's.
Declared(e, b, o) == IF IsSome(e.options[o]) THEN Unwrap(e.options[o]) ELSE b[o]

\* C16: the client options passed to run never change; for every entry the
\* resolvers are handed that baseline (and its verbosity), and the executor is
\* handed the baseline with that entry's declared options only, whatever earlier
\* entries declared.
C16_OptionsPerEntry ==
  /\ [](\A q \in 1..Len(trace) :
          /\ trace[q].fn = "get_entry_verbosity" =>
               trace[q].arg.verbosity = client_options.verbosity
          /\ trace[q].fn = "get_entry_options" =>
               trace[q].arg.client_options = client_options
          /\ trace[q].fn = "entry::run" =>
               /\ trace[q].arg.entry = EntryAt(trace[q].entry_index)
               /\ trace[q].arg.client_options.insecure =
                    Declared(trace[q].arg.entry, client_options, "insecure")
               /\ trace[q].arg.client_options.verbosity =
                    Declared(trace[q].arg.entry, client_options, "verbosity"))
  /\ [][client_options' = client_options]_vars

C16_Witness ==
  /\ pc = "done"
  /\ Len(Runs) = 2
  /\ ~client_options.insecure
  /\ client_options.verbosity = Some("Verbose")
  /\ EntryAt(0).options = [verbosity |-> Some(None), insecure |-> Some(TRUE)]
  /\ EntryAt(1).options = NoEntryOptions
  /\ Runs[1].arg.client_options = [verbosity |-> None, insecure |-> TRUE]
  /\ Runs[2].arg.client_options = client_options

\* C17: get_cookie_storage is called once, as the last call of a run that
\* returns and never before; the returned cookies are what that call returned,
\* which is the cookie state the last executor call left, or the state run was
\* entered with when no entry was executed, however the loop was left.
C17_CookieSnapshot ==
  LET snaps == Calls("get_cookie_storage")
      runs == Runs
  IN
  /\ Len(snaps) = IF pc = "done" THEN 1 ELSE 0
  /\ pc = "done" =>
       /\ trace[Len(trace)].fn = "get_cookie_storage"
       /\ IsSome(result)
       /\ Unwrap(result).cookies = snaps[1].ret
       /\ Unwrap(result).cookies =
            IF runs = <<>> THEN InitialSession.cookies
            ELSE runs[Len(runs)].ret.cookies

C17_Witness ==
  LET runs == Runs IN
  /\ pc = "done"
  /\ exit_by = "fail_fast"
  /\ Len(runs) = 2
  /\ runs[1].ret.cookies = "c0"
  /\ runs[2].ret.cookies = "c1"
  /\ Unwrap(result).cookies = "c1"

\* Iterations of the loop begun so far: those that reached the resolvers, the
\* one a pre-entry stop ended, and the one that is about to reach them.
Iterations == Len(Calls("get_entry_verbosity"))
  + Cardinality({p \in 1..Len(trace) : trace[p].fn = "pre_entry" /\ trace[p].ret = TRUE})
  + (IF pc = "exec" THEN 1 ELSE 0)

\* Steps run can still take at most, up to a constant factor: it falls with
\* every step.
Measure ==
  CASE pc \in {"done", "panicked"} -> 0
    [] pc = "finish" -> 1
    [] pc = "loop" -> 6 * Len(iter) + 2
    [] pc = "failfast" -> 6 * Len(iter) + 4
    [] pc = "post" -> 6 * Len(iter) + 5
    [] pc = "report" -> 6 * Len(iter) + 6
    [] pc = "exec" -> 6 * Len(iter) + 7

\* Entries are taken in increasing index from 0, none skipped, none twice, in at
\* most min(n, script length) iterations.
InScriptOrder ==
  LET runs == Runs
      pres == Calls("pre_entry")
  IN
  /\ Iterations <= Min(entry_count(runner_options, hurl_file), Len(hurl_file.entries))
  /\ Iterations + Len(iter) = Min(entry_count(runner_options, hurl_file), Len(hurl_file.entries))
  /\ \A p \in 1..Len(runs) :
       runs[p].entry_index = p - 1 /\ runs[p].arg.entry = EntryAt(p - 1)
  /\ \A p \in 1..Len(pres) :
       pres[p].entry_index = p - 1 /\ pres[p].arg = EntryAt(p - 1)

\* Some executor call returned no result although fail_fast is set.
EmptyUnderFailFast ==
  /\ runner_options.fail_fast
  /\ \E p \in 1..Len(trace) :
       trace[p].fn = "entry::run" /\ trace[p].ret.entry_results = <<>>

PostEntryReturned(i, x) ==
  \E q \in 1..Len(trace) :
    trace[q].fn = "post_entry" /\ trace[q].entry_index = i /\ trace[q].ret = x

\* C19 as stated: after an executor call returned no result, the run aborts
\* without a result exactly when fail_fast is set.
C19_AbortsWheneverFailFast ==
  LET runs == Runs IN
  /\ pc = "panicked" => (runner_options.fail_fast /\ result = None)
  /\ \A p \in 1..Len(runs) :
       runs[p].ret.entry_results = <<>> =>
         /\ runner_options.fail_fast => (pc # "done" /\ result = None)
         /\ ~runner_options.fail_fast => pc # "panicked"

\* C19, amended: after an executor call returned no result, with fail_fast set
\* the post-entry hook is still called, no later entry is begun, and the run
\* panics at the fail-fast check without a result unless the post-entry hook
\* stopped it first, in which case it returns; with fail_fast unset nothing is
\* pushed or reported for the entry, the post-entry hook is still called and the
\* loop goes on as after any entry.  The run panics in no other case.
C19_EmptyExecutorResult ==
  /\ [](LET runs == Runs IN
        /\ pc = "panicked" =>
             /\ runner_options.fail_fast
             /\ result = None
             /\ runs # <<>>
             /\ runs[Len(runs)].ret.entry_results = <<>>
             /\ runs[Len(runs)].entry_index = entry_index
             /\ runner_options.post_entry => PostEntryReturned(entry_index, FALSE)
        /\ pc # "report" => Len(entries) = Len(ReturnedBy(runs))
        /\ \A p \in 1..Len(runs) :
             runs[p].ret.entry_results = <<>> =>
               /\ \A q \in 1..Len(trace) :
                    trace[q].fn = "error_rich" => trace[q].entry_index # runs[p].entry_index
               /\ (runner_options.post_entry /\ (p < Len(runs) \/ pc \notin {"report", "post"})) =>
                    \E x \in BOOLEAN : PostEntryReturned(runs[p].entry_index, x)
               /\ runner_options.fail_fast =>
                    /\ p = Len(runs)
                    /\ runs[p].entry_index = entry_index
                    /\ \/ pc \in {"report", "post", "failfast", "panicked"}
                       \/ pc \in {"finish", "done"} /\ exit_by = "post_entry"
               /\ ~runner_options.fail_fast =>
                    /\ pc # "panicked"
                    /\ (p = Len(runs) /\ pc \in {"finish", "done"}) =>
                         \/ exit_by \in {"pre_entry", "post_entry"}
                         \/ exit_by = "exhausted" /\ runs[p].entry_index = Considered - 1
                    /\ (p = Len(runs) /\ pc = "loop" /\ runs[p].entry_index < Considered - 1) =>
                         ENABLED (PreEntry \/ NoPreEntry))
  /\ [][(pc = "failfast" /\ runner_options.fail_fast /\ entry_results = <<>>)
          => pc' = "panicked"]_vars

C19_Witness ==
  /\ pc = "done"
  /\ runner_options.fail_fast
  /\ exit_by = "post_entry"
  /\ entry_results = <<>>
  /\ iter # <<>>
  /\ IsSome(result)

\* A pre-entry hook call for an entry after the first is preceded by a
\* post-entry hook call for the entry before it that returned FALSE.
PreEntryAfterPostEntry ==
  \A q \in 1..Len(trace) :
    (trace[q].fn = "pre_entry" /\ trace[q].entry_index > 0) =>
      \E p \in 1..(q - 1) :
        /\ trace[p].fn = "post_entry"
        /\ trace[p].entry_index = trace[q].entry_index - 1
        /\ trace[p].ret = FALSE

\* C20 as stated: with both hooks, in every state there are as many post-entry
\* hook calls as executor calls, and as many pre-entry hook calls or one more.
C20_PostEqualsExecutor ==
  LET nRuns == Len(Runs)
      nPre == Len(Calls("pre_entry"))
      nPost == Len(Calls("post_entry"))
  IN (runner_options.pre_entry /\ runner_options.post_entry) =>
       /\ nPost = nRuns
       /\ nPre \in {nRuns, nRuns + 1}
       /\ nPre = nRuns + 1 <=> (pc = "exec" \/ exit_by = "pre_entry")
       /\ PreEntryAfterPostEntry

\* C20, amended: with both hooks, there are as many post-entry hook calls as
\* executor calls, or one less while the entry is between its executor call and
\* its post-entry hook (while its errors are reported); there are as many
\* pre-entry hook calls as executor calls, or one more while the entry is
\* between its pre-entry hook and its executor call or after a pre-entry stop;
\* the pre-entry hook of entry i+1 is called only after the post-entry hook of
\* entry i returned without asking to stop.
C20_HooksBracketExecutor ==
  LET nRuns == Len(Runs)
      nPre == Len(Calls("pre_entry"))
      nPost == Len(Calls("post_entry"))
  IN (runner_options.pre_entry /\ runner_options.post_entry) =>
       /\ nPost \in {nRuns, nRuns - 1}
       /\ nPost = nRuns - 1 <=> pc \in {"report", "post"}
       /\ nPre \in {nRuns, nRuns + 1}
       /\ nPre = nRuns + 1 <=> (pc = "exec" \/ exit_by = "pre_entry")
       /\ PreEntryAfterPostEntry

C20_Witness ==
  /\ runner_options.pre_entry
  /\ runner_options.post_entry
  /\ pc = "post"
  /\ Len(Runs) = 2
  /\ Len(Calls("post_entry")) = 1
  /\ Len(Calls("pre_entry")) = 2

====
